---- MODULE Spec2Model ----
(***************************************************************************)
(* Model of pipnick's PSF fitting (photometry/fit.py) and of its reduction *)
(* pipeline (pipelines/reduction.py).                                      *)
(*                                                                         *)
(*   Spec        fit_psf_stack / fit_psf_single / get_source_pars ->       *)
(*               fit_psf_generic, then get_param_list on the result        *)
(*   SpecParam   get_param_list as a pure function of bounded inputs       *)
(*   SpecClip    SigmaClip(sigma=4, maxiters=5) on one-outlier arrays      *)
(*   SpecSigma   the sigma clipping that ends single mode, on 15 or more   *)
(*               fits                                                      *)
(*   SpecReduce  reduce_all over small tables of raw frames                *)
(*   SpecStack   stack_frames over small stacks of frames (SpecStackFair:  *)
(*               with weak fairness of its steps)                          *)
(*                                                                         *)
(* Python indices are kept as the source writes them (0-based values);     *)
(* TLA+ sequences are 1-based, so a[k] of the source is a[k+1] here.       *)
(***************************************************************************)
EXTENDS Integers, Sequences, FiniteSets, TLC

VARIABLES
    pc,               \* position in fit_psf_generic
    mode,             \* 'stack' or 'single'
    fittype,          \* the fittype argument
    sigma_clip,       \* the sigma_clip argument
    stamp_width,      \* hdu['STAMPS_01'].data.shape[1]
    srcdb,            \* the source table (np.genfromtxt of .src.db)
    opened,           \* fits.open(ofits) has been called
    i,                \* the frame loop variable (0-based)
    stamps,           \* hdu[ext].data[stamp_indx[in_q]] of the current frame
    step_num,         \* the enumerate() counter over stamps
    centroid_coords,  \* single mode accumulators
    fit_pars,
    fit_objs,
    source_images,
    psf_sum_stack,    \* stack mode arrays
    psf_sum_model,
    psf_sum_model_par,
    fit,              \* the last fit object
    used,             \* history: every (extension, index) read from hdu
    nfit,             \* history: number of fit.fit() calls
    error,            \* the exception that left the function, or NoError
    ret,              \* what the function returned, or None
    written,          \* the HDUList written to ofile, or None
    p0,               \* the last initial guess made by get_p0
    gsp,              \* get_source_pars: its fittype argument, position and result
    param_type,       \* get_param_list arguments and result
    pars,
    img_nums,
    param_out,
    data,             \* SigmaClip input and result
    clip_out,
    file_df,          \* reduce_all: the organised table of raw frames
    save_inters,      \* the save_inters argument
    rpc,              \* position in reduce_all
    master_bias,      \* get_master_bias result
    master_flats,     \* get_master_flats result, keyed by filter
    scifile_df,       \* the science rows with what was done to each
    todo_filts,       \* master_flats.keys() not yet iterated
    saved,            \* every file written to disk
    all_red_paths,    \* the accumulated reduced paths
    red_error,        \* the exception that left reduce_all, or NoError
    red_ret,          \* what reduce_all returned
    frame_type,       \* stack_frames: the frame_type argument
    data_arr,         \* combiner.data_arr values, [frame][pixel]
    data_mask,        \* combiner.data_arr.mask
    old_n_masked,
    new_n_masked,
    spc,              \* position in stack_frames
    passes,           \* history: number of sigma_clipping calls
    stack             \* combiner.average_combine()

fitVars == <<pc, mode, fittype, sigma_clip, stamp_width, srcdb, opened, i, stamps,
             step_num, centroid_coords, fit_pars, fit_objs, source_images,
             psf_sum_stack, psf_sum_model, psf_sum_model_par, fit, used, nfit,
             error, ret, written, p0, gsp>>
paramVars == <<param_type, pars, img_nums, param_out>>
clipVars == <<data, clip_out>>
redVars == <<file_df, save_inters, rpc, master_bias, master_flats, scifile_df,
             todo_filts, saved, all_red_paths, red_error, red_ret>>
stackVars == <<frame_type, data_arr, data_mask, old_n_masked, new_n_masked, spc,
               passes, stack>>
vars == <<fitVars, paramVars, clipVars, redVars, stackVars>>

None == "None"
NoError == [type |-> "none", at |-> "none"]
Raise(type, at) == [type |-> type, at |-> at]

\* the values of a pipeline that has not been called
NoP0 == [x0 |-> 0, y0 |-> 0, amplitude |-> [num |-> 0, den |-> 0],
         gamma |-> 0, alpha |-> 0, len |-> 0]
NoGsp == [fittype |-> None, at |-> "none", source_pars |-> <<>>]
NoStack == [frames |-> {}, type |-> "none"]
IdleRed ==
    /\ file_df = <<>> /\ save_inters = FALSE /\ rpc = "idle"
    /\ master_bias = NoStack /\ master_flats = <<>> /\ scifile_df = <<>>
    /\ todo_filts = {} /\ saved = {} /\ all_red_paths = <<>>
    /\ red_error = NoError /\ red_ret = <<>>
IdleStack ==
    /\ frame_type = "none" /\ data_arr = <<>> /\ data_mask = <<>>
    /\ old_n_masked = 0 /\ new_n_masked = 0 /\ spc = "idle" /\ passes = 0
    /\ stack = <<>>

(***************************************************************************)
(* Bounds of the model.                                                    *)
(***************************************************************************)
MaxRows == 3      \* rows of the source table
NumImages == 3    \* num_images: frames 1..NumImages
MaxN == 16        \* longest array given to SigmaClip in SpecClip
MaxSources == 4   \* longest parameter array given to get_param_list
MaxGamma == 2     \* gamma1, gamma2 range over 1..MaxGamma
MaxTurn == 12     \* phi ranges over -MaxTurn..MaxTurn units of 15 degrees

(***************************************************************************)
(* Inputs: the source table and the stamp container.                       *)
(* Columns of .src.db: 0 frame index, 1 stamp index within the frame,      *)
(* 2 centroid x, 3 centroid y, 7 flux, 8 quality flag.  The table is       *)
(* written frame by frame; a row's stamp index is its position among the   *)
(* rows of its frame, as the stamps are stored in STAMPS_<frame>.          *)
(* conv is not a column: it says whether the fit of the row's stamp        *)
(* converges (a property of the stamp's pixels).                           *)
(***************************************************************************)
Kinds == {"good", "fails", "flagged", "faint"}
KindFlux(k) == IF k = "faint" THEN 100 ELSE 1000
KindFlag(k) == IF k = "flagged" THEN 0 ELSE 1
KindConv(k) == k # "fails"

Layouts == UNION {[1..L -> (1..NumImages) \X Kinds] : L \in 0..MaxRows}
FrameOrdered(l) == \A k \in DOMAIN l : \A j \in DOMAIN l : j < k => l[j][1] <= l[k][1]

Row(l, k) ==
    [frame |-> l[k][1],
     stamp |-> Cardinality({j \in 1..(k-1) : l[j][1] = l[k][1]}),
     x     |-> 10 * k,
     y     |-> 10 * k + 1,
     flux  |-> KindFlux(l[k][2]),
     flag  |-> KindFlag(l[k][2]),
     conv  |-> KindConv(l[k][2])]

Catalogs == {[k \in DOMAIN l |-> Row(l, k)] : l \in {m \in Layouts : FrameOrdered(m)}}

StampWidths == {2, 4}
Fittypes == {"ellip", "circ", "gauss"}

\* hdu['STAMPS_<ext>'].data: the stamps of frame ext, in stamp-index order
hdu_data(ext) ==
    LET n == Cardinality({k \in DOMAIN srcdb : srcdb[k].frame = ext})
        rowOf(t) == CHOOSE k \in DOMAIN srcdb : srcdb[k].frame = ext /\ srcdb[k].stamp = t
    IN [t \in 1..n |-> [ext |-> ext, index |-> t - 1, conv |-> srcdb[rowOf(t - 1)].conv]]

\* the pixels of a stamp: a source of peak 10 + index centred on the stamp
\* (row and column stamp_width // 2), falling by 3 per pixel of distance down
\* to a background of 1.  Rows and columns are 1-based here.
StampImage(st) ==
    LET ctr == stamp_width \div 2 + 1
        dist(a) == IF a < ctr THEN ctr - a ELSE a - ctr
        val(r, c) == 10 + st.index - 3 * (dist(r) + dist(c))
    IN [r \in 1..stamp_width |->
          [c \in 1..stamp_width |-> IF val(r, c) < 1 THEN 1 ELSE val(r, c)]]

(***************************************************************************)
(* numpy helpers                                                           *)
(***************************************************************************)
\* a[m] for a boolean mask m of the same length
MaskSel(a, m) ==
    LET F[k \in 0..Len(a)] ==
            IF k = 0 THEN <<>>
            ELSE IF m[k] THEN Append(F[k-1], a[k]) ELSE F[k-1]
    IN F[Len(a)]

\* np.sum of a sequence of integers
SumSeq(s) ==
    LET F[k \in 0..Len(s)] == IF k = 0 THEN 0 ELSE F[k-1] + s[k]
    IN F[Len(s)]

\* np.sum(stamps, axis=0): the pixelwise sum, zeros for no stamp
SumImages(sts) ==
    [r \in 1..stamp_width |->
       [c \in 1..stamp_width |->
          SumSeq([t \in 1..Len(sts) |-> StampImage(sts[t])[r][c]])]]

\* np.amax of a one-dimensional array
amax(row) == CHOOSE m \in {row[k] : k \in DOMAIN row} : \A k \in DOMAIN row : m >= row[k]

\* np.amax of a two-dimensional array
amax2(img) == amax([r \in DOMAIN img |-> amax(img[r])])

\* np.log10(x) > c for an integer c: x > 10^c; nan or -inf (x <= 0) compare False
Log10Gt(x, c) == x > 0 /\ x > 10^c

\* column k (0-based) of a parameter vector
Col(par, k) == par[k + 1]

(***************************************************************************)
(* Moffat model (pipnick.photometry.moffat_model).                         *)
(* Lengths are integers: gamma in pixels, FWHM in tenths of a pixel.       *)
(* beta is 1 or 2; phi is an integer number of 15-degree steps (pi/12).    *)
(***************************************************************************)
\* 10 * sqrt(2^(1/beta) - 1), rounded: 1 -> 1.000, 2 -> 0.644
KBeta(beta) == IF beta = 1 THEN 10 ELSE 6

\* FitMoffat2D.to_fwhm(gamma, beta) = 2 gamma sqrt(2^(1/beta) - 1), in tenths of a pixel
to_fwhm(gamma, beta) == 2 * gamma * KBeta(beta)

\* the parameter vector a converged fit of this stamp holds
\*   ellip: [x0, y0, amplitude, gamma1, gamma2, phi, beta, background]
\*   circ:  [x0, y0, amplitude, gamma, beta, background]
FitPar(ft, stamp) ==
    IF ft = "ellip"
    THEN <<stamp_width \div 2, stamp_width \div 2, 1, 2, 1 + (stamp.index % 2), stamp.ext, 1, 0>>
    ELSE <<stamp_width \div 2, stamp_width \div 2, 1, 1 + (stamp.index % 2), 1, 0>>

(***************************************************************************)
(* astropy.stats.SigmaClip(sigma, maxiters) with its defaults              *)
(* cenfunc='median', stdfunc='std': each pass keeps the values within      *)
(* median -/+ sigma*std of the values left, until a pass removes nothing   *)
(* or maxiters passes ran; the mask is taken with the last bounds.         *)
(***************************************************************************)
SumSq(s) == SumSeq([k \in 1..Len(s) |-> s[k] * s[k]])

\* twice the median of a non-empty sequence
Median2(s) ==
    LET n == Len(s)
        o == SortSeq(s, LAMBDA a, b : a < b)
    IN IF n % 2 = 1 THEN 2 * o[(n + 1) \div 2] ELSE o[n \div 2] + o[n \div 2 + 1]

\* twice the mean, times n
Mean2n(s) == 2 * SumSeq(s)

\* n^2 times the (population) variance
VarN2(s) == Len(s) * SumSq(s) - SumSeq(s) * SumSeq(s)

\* the mean as the clipping centre
CentreMean2n(s) == Mean2n(s)

\* twice the clipping centre, times n: cenfunc='median'
Centre2n(s) == Len(s) * Median2(s)

\* min_value <= x <= max_value for the bounds computed from s
\*   |x - centre| <= sigma * std   <=>   (2nx - 2n centre)^2 <= 4 sigma^2 n^2 var
WithinBounds(x, s, sigma) ==
    LET d == 2 * Len(s) * x - Centre2n(s)
    IN d * d <= 4 * sigma * sigma * VarN2(s)

RECURSIVE ClipLoop(_, _, _, _)
ClipLoop(filtered, iteration, sigma, maxiters) ==
    LET kept == SelectSeq(filtered, LAMBDA x : WithinBounds(x, filtered, sigma))
        nchanged == Len(filtered) - Len(kept)
    IN IF nchanged # 0 /\ iteration + 1 < maxiters
       THEN ClipLoop(kept, iteration + 1, sigma, maxiters)
       ELSE [last |-> filtered, iters |-> iteration + 1, nchanged |-> nchanged]

\* SigmaClip(sigma, maxiters)(d): the mask (TRUE = clipped) and how the loop ended
SigmaClip(d, sigma, maxiters) ==
    IF Len(d) = 0
    THEN [mask |-> <<>>, iters |-> 1, nchanged |-> 0]
    ELSE LET r == ClipLoop(d, 0, sigma, maxiters)
         IN [mask |-> [k \in 1..Len(d) |-> ~WithinBounds(d[k], r.last, sigma)],
             iters |-> r.iters, nchanged |-> r.nchanged]

NotClipped == [mask |-> <<>>, iters |-> 0, nchanged |-> 0]

ClipSigma == 4
ClipMaxiters == 5

\* sigma_clipper = SigmaClip(sigma=4, maxiters=5)
sigma_clipper(d) == SigmaClip(d, ClipSigma, ClipMaxiters)

Not(m) == [k \in DOMAIN m |-> ~m[k]]

(***************************************************************************)
(* fit_psf_generic                                                         *)
(***************************************************************************)
\* lines 77-84: the fittype selector
KnownFittype(ft) == ft \in {"ellip", "circ"}
num_pars(ft) == IF ft = "ellip" THEN 8 ELSE 6

\* the selection without the quality flag
indx_flux_only == [k \in 1..Len(srcdb) |-> Log10Gt(srcdb[k].flux, 2)]

\* line 99: indx = (srcdb[:,8].astype(int) == 1) & (np.log10(srcdb[:,7]) > 2.0)
indx == [k \in 1..Len(srcdb) |-> srcdb[k].flag = 1 /\ Log10Gt(srcdb[k].flux, 2)]

\* line 117: on_chip = (srcdb[:,0] == i+1)
on_chip(ii) == [k \in 1..Len(srcdb) |-> srcdb[k].frame = ii + 1]

\* lines 118-119: stamp_indx = -1 everywhere, arange(sum(on_chip)) on the frame's rows
stamp_indx(ii) ==
    [k \in 1..Len(srcdb) |->
        IF on_chip(ii)[k]
        THEN Cardinality({j \in 1..(k-1) : on_chip(ii)[j]})
        ELSE -1]

\* line 121: in_q = on_chip & indx
in_q(ii) == [k \in 1..Len(srcdb) |-> on_chip(ii)[k] /\ indx[k]]

\* hdu[ext].data[stamp_indx[in_q]]
SelectedStamps(ii) ==
    LET idx == MaskSel(stamp_indx(ii), in_q(ii))
    IN [t \in 1..Len(idx) |-> hdu_data(ii + 1)[idx[t] + 1]]

\* the flux of every row of the frame, whatever its quality
SelectedFluxOnChip(ii) ==
    MaskSel([k \in 1..Len(srcdb) |-> srcdb[k].flux], on_chip(ii))

\* srcdb[in_q, 7]
SelectedFlux(ii) ==
    MaskSel([k \in 1..Len(srcdb) |-> srcdb[k].flux], in_q(ii))

\* lines 128-135: get_p0 reads stamp[i], row i of a stamp_width x stamp_width image
P0Raises(ii) == ii >= stamp_width

\* lines 124-135: get_p0(fittype, stamp) in frame ii.  The image is img / den
\* (den = 1 for a single stamp, the summed flux for a stack); gamma and alpha
\* are in tenths: 8 / 2 / sqrt(2**(1/3.5) - 1) = 8.5 and 3.5.
get_p0(ft, img, den, ii) ==
    [x0 |-> stamp_width \div 2, y0 |-> stamp_width \div 2,
     amplitude |-> [num |-> amax(img[ii + 1]), den |-> den],
     gamma |-> 85, alpha |-> 35, len |-> num_pars(ft)]

\* no exception is handled
CaughtNothing(type) == FALSE

\* line 158: except ValueError
Caught(type) == type = "ValueError"

\* lines 163-165: condition = (srcdb[:,0] == i+1) & (srcdb[:,1] == step_num)
LookupRows(ii, sn) ==
    MaskSel([k \in 1..Len(srcdb) |-> srcdb[k]],
            [k \in 1..Len(srcdb) |-> srcdb[k].frame = ii + 1 /\ srcdb[k].stamp = sn])

Zeros(n) == [k \in 1..n |-> "zero"]

InitFit ==
    /\ pc = "idle"
    /\ srcdb \in Catalogs
    /\ stamp_width \in StampWidths
    /\ mode = None /\ fittype = None /\ sigma_clip = None
    /\ opened = FALSE
    /\ i = 0 /\ stamps = <<>> /\ step_num = 0
    /\ centroid_coords = <<>> /\ fit_pars = <<>> /\ fit_objs = <<>> /\ source_images = <<>>
    /\ psf_sum_stack = <<>> /\ psf_sum_model = <<>> /\ psf_sum_model_par = <<>>
    /\ fit = None /\ used = {} /\ nfit = 0
    /\ error = NoError /\ ret = None /\ written = None
    /\ p0 = NoP0 /\ gsp = NoGsp

\* lines 64-112: the selector, the inputs, the accumulators
Enter(m, ft, sc) ==
    /\ pc = "idle"
    /\ mode' = m /\ fittype' = ft /\ sigma_clip' = sc
    /\ IF ~KnownFittype(ft)
       THEN /\ pc' = "raised"
            /\ error' = Raise("ValueError", "fittype")
            /\ UNCHANGED <<opened, psf_sum_stack, psf_sum_model, psf_sum_model_par>>
       ELSE /\ pc' = "frame"
            /\ opened' = TRUE
            /\ error' = NoError
            /\ IF m = "stack"
               THEN /\ psf_sum_stack' = Zeros(NumImages)
                    /\ psf_sum_model' = Zeros(NumImages)
                    /\ psf_sum_model_par' = Zeros(NumImages)
               ELSE UNCHANGED <<psf_sum_stack, psf_sum_model, psf_sum_model_par>>
    /\ UNCHANGED <<stamp_width, srcdb, i, stamps, step_num, centroid_coords, fit_pars,
                   fit_objs, source_images, fit, used, nfit, ret, written, p0>>
    /\ UNCHANGED <<paramVars, clipVars, redVars, stackVars>>

\* lines 28-43: fit_psf_stack passes no sigma_clip (the default, True)
fit_psf_stack ==
    /\ gsp.at = "none"
    /\ \E ft \in Fittypes : Enter("stack", ft, TRUE)
    /\ UNCHANGED gsp

\* lines 45-62
fit_psf_single ==
    /\ gsp.at = "none"
    /\ \E ft \in Fittypes : \E sc \in BOOLEAN : Enter("single", ft, sc)
    /\ UNCHANGED gsp

\* lines 221-259: get_source_pars(path_list, category_str, fittype) calls
\* fit_psf_single(base, len(images)): fittype and sigma_clip take their defaults
get_source_pars ==
    /\ gsp.at = "none"
    /\ \E ft \in {"ellip", "circ"} :
         gsp' = [fittype |-> ft, at |-> "fitting", source_pars |-> <<>>]
    /\ Enter("single", "ellip", TRUE)

\* lines 260-261: source_pars = np.array([fit.par for fit in source_fits])
GetSourceParsReturn ==
    /\ gsp.at = "fitting" /\ pc = "returned"
    /\ gsp' = [gsp EXCEPT !.at = "returned",
                          !.source_pars = [k \in 1..Len(ret.fits) |-> ret.fits[k].par]]
    /\ UNCHANGED <<pc, mode, fittype, sigma_clip, stamp_width, srcdb, opened, i, stamps,
                   step_num, centroid_coords, fit_pars, fit_objs, source_images,
                   psf_sum_stack, psf_sum_model, psf_sum_model_par, fit, used, nfit,
                   error, ret, written, p0>>
    /\ UNCHANGED <<paramVars, clipVars, redVars, stackVars>>

Range(f) == {f[k] : k \in DOMAIN f}

\* every (extension, index) that hdu[ext].data[stamp_indx[in_q]] reads
Reads(ii) == {[ext |-> st.ext, index |-> st.index] : st \in Range(SelectedStamps(ii))}

\* lines 116-121, 137-147: one frame of stack mode
StackFrame ==
    /\ pc = "frame" /\ mode = "stack" /\ i < NumImages
    /\ used' = used \cup Reads(i)
    /\ LET stk == [sum |-> SelectedStamps(i), norm |-> SumSeq(SelectedFlux(i))]
       IN /\ psf_sum_stack' = [psf_sum_stack EXCEPT ![i + 1] = stk]
          /\ IF P0Raises(i)
             THEN /\ pc' = "raised"
                  /\ error' = Raise("IndexError", "get_p0")
                  /\ UNCHANGED <<i, fit, nfit, psf_sum_model, psf_sum_model_par, p0>>
             ELSE \E ok \in BOOLEAN :
                  /\ p0' = get_p0(fittype, SumImages(stk.sum), stk.norm, i)
                  /\ nfit' = nfit + 1
                  /\ IF ok
                     THEN /\ fit' = [c |-> stk, par |-> FitPar(fittype, [ext |-> i + 1, index |-> 0])]
                          /\ psf_sum_model' = [psf_sum_model EXCEPT ![i + 1] = [model_of |-> stk]]
                          /\ psf_sum_model_par' = [psf_sum_model_par EXCEPT ![i + 1] = fit'.par]
                          /\ i' = i + 1
                          /\ UNCHANGED <<pc, error>>
                     ELSE /\ fit' = [c |-> stk, par |-> None]
                          /\ pc' = "raised"
                          /\ error' = Raise("ValueError", "fit")
                          /\ UNCHANGED <<i, psf_sum_model, psf_sum_model_par>>
    /\ UNCHANGED <<mode, fittype, sigma_clip, stamp_width, srcdb, opened, stamps, step_num,
                   centroid_coords, fit_pars, fit_objs, source_images, ret, written, gsp>>
    /\ UNCHANGED <<paramVars, clipVars, redVars, stackVars>>

\* lines 116-121, 151: the head of one frame of single mode
SingleFrame ==
    /\ pc = "frame" /\ mode = "single" /\ i < NumImages
    /\ used' = used \cup Reads(i)
    /\ stamps' = SelectedStamps(i)
    /\ step_num' = 0
    /\ IF Len(SelectedStamps(i)) = 0
       THEN i' = i + 1 /\ pc' = "frame"
       ELSE i' = i /\ pc' = "source"
    /\ UNCHANGED <<mode, fittype, sigma_clip, stamp_width, srcdb, opened, centroid_coords,
                   fit_pars, fit_objs, source_images, psf_sum_stack, psf_sum_model,
                   psf_sum_model_par, fit, nfit, error, ret, written, p0, gsp>>
    /\ UNCHANGED <<paramVars, clipVars, redVars, stackVars>>

\* the enumerate() loop moves on: next stamp, or next frame
NextStamp ==
    IF step_num + 1 = Len(stamps)
    THEN i' = i + 1 /\ pc' = "frame" /\ step_num' = 0 /\ stamps' = <<>>
    ELSE i' = i /\ pc' = "source" /\ step_num' = step_num + 1 /\ stamps' = stamps

\* lines 151-170: one stamp of single mode
SingleSource ==
    /\ pc = "source"
    /\ LET stamp_img == stamps[step_num + 1]
           found == LookupRows(i, step_num)
       IN IF P0Raises(i)
          THEN /\ pc' = "raised"
               /\ error' = Raise("IndexError", "get_p0")
               /\ UNCHANGED <<i, stamps, step_num, fit, nfit, centroid_coords, fit_pars,
                              fit_objs, source_images, p0>>
          ELSE /\ p0' = get_p0(fittype, StampImage(stamp_img), 1, i)
               /\ nfit' = nfit + 1
               /\ IF ~stamp_img.conv
                  THEN /\ fit' = [c |-> stamp_img, par |-> None]
                       /\ UNCHANGED <<centroid_coords, fit_pars, fit_objs, source_images>>
                       /\ IF Caught("ValueError")
                          THEN NextStamp /\ UNCHANGED error
                          ELSE /\ pc' = "raised"
                               /\ error' = Raise("ValueError", "fit")
                               /\ UNCHANGED <<i, stamps, step_num>>
                  ELSE /\ fit' = [c |-> stamp_img, par |-> FitPar(fittype, stamp_img)]
                       /\ IF Len(found) = 0
                          THEN /\ pc' = "raised"
                               /\ error' = Raise("IndexError", "centroid")
                               /\ UNCHANGED <<i, stamps, step_num, centroid_coords, fit_pars,
                                              fit_objs, source_images>>
                          ELSE /\ centroid_coords' = Append(centroid_coords, <<found[1].x, found[1].y>>)
                               /\ fit_pars' = Append(fit_pars, fit'.par)
                               /\ fit_objs' = Append(fit_objs, fit')
                               /\ source_images' = Append(source_images, i)
                               /\ NextStamp
                               /\ UNCHANGED error
    /\ UNCHANGED <<mode, fittype, sigma_clip, stamp_width, srcdb, opened, psf_sum_stack,
                   psf_sum_model, psf_sum_model_par, used, ret, written, gsp>>
    /\ UNCHANGED <<paramVars, clipVars, redVars, stackVars>>

\* lines 194-197: fwhm1 from gamma (column 3) and beta (column 6 ellip, 4 circ)
Fwhm1(ps) ==
    [k \in 1..Len(ps) |->
        to_fwhm(Col(ps[k], 3), Col(ps[k], IF fittype = "ellip" THEN 6 ELSE 4))]

\* line 208: fwhm2 from gamma2 (column 4) and beta (column 6)
Fwhm2(ps) == [k \in 1..Len(ps) |-> to_fwhm(Col(ps[k], 4), Col(ps[k], 6))]

\* both masks taken over all the fits
ClippedTogether ==
    LET keep1 == Not(sigma_clipper(Fwhm1(fit_pars)).mask)
        keep2 == Not(sigma_clipper(Fwhm2(fit_pars)).mask)
        keep == [k \in 1..Len(fit_pars) |-> keep1[k] /\ keep2[k]]
    IN IF fittype = "ellip"
       THEN [coords |-> MaskSel(centroid_coords, keep), fits |-> MaskSel(fit_objs, keep),
             images |-> MaskSel(source_images, keep)]
       ELSE [coords |-> MaskSel(centroid_coords, keep1), fits |-> MaskSel(fit_objs, keep1),
             images |-> MaskSel(source_images, keep1)]

\* lines 199-218: the clipped collections
Clipped ==
    LET keep1 == Not(sigma_clipper(Fwhm1(fit_pars)).mask)
        pars1 == MaskSel(fit_pars, keep1)
        objs1 == MaskSel(fit_objs, keep1)
        coords1 == MaskSel(centroid_coords, keep1)
        images1 == MaskSel(source_images, keep1)
        keep2 == Not(sigma_clipper(Fwhm2(pars1)).mask)
    IN IF fittype = "ellip"
       THEN [coords |-> MaskSel(coords1, keep2), fits |-> MaskSel(objs1, keep2),
             images |-> MaskSel(images1, keep2)]
       ELSE [coords |-> coords1, fits |-> objs1, images |-> images1]

\* lines 172-182: after the loop, stack mode
FinishStack ==
    /\ pc = "frame" /\ mode = "stack" /\ i = NumImages
    /\ opened' = FALSE
    /\ written' = [STACK |-> psf_sum_stack, MOFFAT |-> psf_sum_model, PAR |-> psf_sum_model_par]
    /\ ret' = fit
    /\ pc' = "returned"
    /\ UNCHANGED <<mode, fittype, sigma_clip, stamp_width, srcdb, i, stamps, step_num,
                   centroid_coords, fit_pars, fit_objs, source_images, psf_sum_stack,
                   psf_sum_model, psf_sum_model_par, fit, used, nfit, error, p0, gsp>>
    /\ UNCHANGED <<paramVars, clipVars, redVars, stackVars>>

\* lines 172, 184-218: after the loop, single mode
FinishSingle ==
    /\ pc = "frame" /\ mode = "single" /\ i = NumImages
    /\ opened' = FALSE
    /\ IF ~sigma_clip
       THEN /\ ret' = [coords |-> centroid_coords, fits |-> fit_objs, images |-> source_images]
            /\ pc' = "returned"
            /\ UNCHANGED error
       ELSE IF Len(fit_pars) = 0
            THEN \* np.array([]) is one-dimensional: fit_pars[:,3] raises
                 /\ pc' = "raised"
                 /\ error' = Raise("IndexError", "fwhm1")
                 /\ UNCHANGED ret
            ELSE /\ ret' = Clipped
                 /\ pc' = "returned"
                 /\ UNCHANGED error
    /\ UNCHANGED <<mode, fittype, sigma_clip, stamp_width, srcdb, i, stamps, step_num,
                   centroid_coords, fit_pars, fit_objs, source_images, psf_sum_stack,
                   psf_sum_model, psf_sum_model_par, fit, used, nfit, written, p0, gsp>>
    /\ UNCHANGED <<paramVars, clipVars, redVars, stackVars>>

(***************************************************************************)
(* get_param_list                                                          *)
(* A result is [err, val]: the exception raised (val empty) or NoError     *)
(* and the parameter list.  FWHMs are kept doubled (fwhm1 + fwhm2, in      *)
(* tenths of a pixel) so that the average needs no division; the plate     *)
(* scale is in hundredths of an arcsecond per pixel.                       *)
(***************************************************************************)
ParamTypes == {"fwhm", "fwhm residuals", "phi", "ecc", "gamma"}

\* pipnick.utils.nickel_data.plate_scale_approx, in hundredths of arcsec/pixel
plate_scale_approx == 37

\* img_nums: None, or an array of frame indices
NoNums == [given |-> FALSE, v |-> <<>>]
Nums(v) == [given |-> TRUE, v |-> v]

Ok(val) == [err |-> NoError, val |-> val]
Failed(type, at) == [err |-> Raise(type, at), val |-> <<>>]

\* pars[:, c] is defined: pars is two-dimensional with more than c columns
HasCol(ps, c) == Len(ps) > 0 /\ \A k \in 1..Len(ps) : Len(ps[k]) > c

\* lines 350-351, 356-357: to_fwhm(pars[:,3], pars[:,6]) + to_fwhm(pars[:,4], pars[:,6])
FwhmList2(ps) ==
    [k \in 1..Len(ps) |->
        to_fwhm(Col(ps[k], 3), Col(ps[k], 6)) + to_fwhm(Col(ps[k], 4), Col(ps[k], 6))]

MinOf(S) == CHOOSE m \in S : \A x \in S : m <= x
MaxOf(S) == CHOOSE m \in S : \A x \in S : m >= x
Abs(x) == IF x < 0 THEN -x ELSE x

\* np.min over every source, whatever its frame
MinsUngrouped(fl, nums) == [n \in Range(nums) |-> MinOf(Range(fl))]

\* lines 358-359: mins = {img_num: np.min(fwhm_list[img_nums == img_num]) for img_num in set(img_nums)}
Mins(fl, nums) ==
    [n \in Range(nums) |-> MinOf(Range(MaskSel(fl, [k \in 1..Len(nums) |-> nums[k] = n])))]

\* lines 348-353
ParamFwhm(ps) ==
    IF ~HasCol(ps, 6) THEN Failed("IndexError", "pars")
    ELSE Ok([k \in 1..Len(ps) |-> FwhmList2(ps)[k] * plate_scale_approx])

\* img_nums = None is taken as one frame holding every source
ParamResidualsUngrouped(ps, nums) ==
    IF ~HasCol(ps, 6) THEN Failed("IndexError", "pars")
    ELSE LET eff == IF ~nums.given THEN [k \in 1..Len(ps) |-> 0] ELSE nums.v
         IN Ok([k \in 1..Len(eff) |->
                  (FwhmList2(ps)[k] - Mins(FwhmList2(ps), eff)[eff[k]]) * plate_scale_approx])

\* lines 354-363; set(None) raises TypeError
ParamResiduals(ps, nums) ==
    IF ~HasCol(ps, 6) THEN Failed("IndexError", "pars")
    ELSE IF ~nums.given THEN Failed("TypeError", "img_nums")
    ELSE Ok([k \in 1..Len(nums.v) |->
               (FwhmList2(ps)[k] - Mins(FwhmList2(ps), nums.v)[nums.v[k]]) * plate_scale_approx])

\* FitEllipticalMoffat2D.get_nice_phi(par), in degrees:
\*   (a) gamma1 < gamma2: swap the axes and add 90
\*   (b) reduce modulo 180 into (-90, 90]
\*   (c) above 45: subtract 90 and swap the axes back
get_nice_phi(par) ==
    LET deg == 15 * Col(par, 5)
        a == IF Col(par, 3) < Col(par, 4) THEN deg + 90 ELSE deg
        m == a % 180
        b == IF m > 90 THEN m - 180 ELSE m
    IN IF b > 45 THEN b - 90 ELSE b

\* lines 364-369
ParamPhi(ps) == Ok([k \in 1..Len(ps) |-> get_nice_phi(ps[k])])

\* lines 370-379: sqrt(|fwhm1^2 - fwhm2^2|) / max(fwhm1, fwhm2), kept as
\* <<numerator, denominator>> of its square
ParamEcc(ps) ==
    IF \E k \in 1..Len(ps) : Len(ps[k]) <= 6 THEN Failed("IndexError", "pars")
    ELSE Ok([k \in 1..Len(ps) |->
               LET fwhm1 == to_fwhm(Col(ps[k], 3), Col(ps[k], 6))
                   fwhm2 == to_fwhm(Col(ps[k], 4), Col(ps[k], 6))
               IN <<Abs(fwhm1 * fwhm1 - fwhm2 * fwhm2),
                    MaxOf({fwhm1, fwhm2}) * MaxOf({fwhm1, fwhm2})>>])

\* an unknown param_type is taken as 'fwhm'
get_param_list_defaulting(pt, ps, nums) ==
    IF pt = "fwhm residuals" THEN ParamResiduals(ps, nums)
    ELSE IF pt = "phi" THEN ParamPhi(ps)
    ELSE IF pt = "ecc" THEN ParamEcc(ps)
    ELSE ParamFwhm(ps)

\* lines 348-384 (shape is the length of pars)
get_param_list(pt, ps, nums) ==
    IF pt = "fwhm" THEN ParamFwhm(ps)
    ELSE IF pt = "fwhm residuals" THEN ParamResiduals(ps, nums)
    ELSE IF pt = "phi" THEN ParamPhi(ps)
    ELSE IF pt = "ecc" THEN ParamEcc(ps)
    ELSE Failed("ValueError", "param_type")

\* get_param_list on what fit_psf_generic returned (lines 259-261, 306-308)
GetParamListOnResult ==
    /\ pc = "returned" /\ param_type = None
    /\ \E pt \in ParamTypes : \E withNums \in BOOLEAN :
         LET ps == IF mode = "stack" THEN <<ret.par>>
                   ELSE [k \in 1..Len(ret.fits) |-> ret.fits[k].par]
             nums == IF mode = "single" /\ withNums THEN Nums(ret.images) ELSE NoNums
         IN /\ param_type' = pt
            /\ pars' = ps
            /\ img_nums' = nums
            /\ param_out' = get_param_list(pt, ps, nums)
    /\ UNCHANGED <<fitVars, clipVars, redVars, stackVars>>

Init ==
    /\ InitFit
    /\ param_type = None /\ pars = <<>> /\ img_nums = NoNums /\ param_out = Ok(<<>>)
    /\ data = <<>> /\ clip_out = NotClipped
    /\ IdleRed /\ IdleStack

Next ==
    \/ fit_psf_stack
    \/ fit_psf_single
    \/ get_source_pars
    \/ GetSourceParsReturn
    \/ StackFrame
    \/ SingleFrame
    \/ SingleSource
    \/ FinishStack
    \/ FinishSingle
    \/ GetParamListOnResult

Spec == Init /\ [][Next]_vars

(***************************************************************************)
(* Properties of fit_psf_generic                                           *)
(***************************************************************************)
\* the selection predicate of the specification, row by row
Qualifies(k) == srcdb[k].flag = 1 /\ srcdb[k].flux > 100

\* the position of row k among the rows of its frame (0-based)
PosInFrame(k) == Cardinality({j \in 1..(k-1) : srcdb[j].frame = srcdb[k].frame})

\* the rank of row k among the qualifying rows of its frame (0-based)
QualRank(k) ==
    Cardinality({j \in 1..(k-1) : srcdb[j].frame = srcdb[k].frame /\ Qualifies(j)})

RefOfRow(k) == [ext |-> srcdb[k].frame, index |-> PosInFrame(k)]
RefOfFit(f) == [ext |-> f.c.ext, index |-> f.c.index]

\* the row whose stamp a fit object fitted
RowOfFit(f) ==
    CHOOSE k \in 1..Len(srcdb) : RefOfRow(k) = RefOfFit(f)

\* the frames (1-based) whose stamps have been read from the container
FramesRead ==
    IF pc = "idle" \/ error.at = "fittype" THEN {}
    ELSE IF pc = "source" \/ (pc = "raised" /\ error.at \in {"get_p0", "fit", "centroid"})
         THEN 1..(i + 1)
         ELSE 1..i

\* the qualifying rows whose fit has been attempted in single mode
Attempted(k) ==
    /\ Qualifies(k)
    /\ \/ srcdb[k].frame <= i
       \/ srcdb[k].frame = i + 1 /\ pc \in {"source", "raised"} /\ QualRank(k) < step_num

C2_CentroidOfFittedSource ==
    mode = "single" =>
        \A k \in 1..Len(fit_objs) :
            centroid_coords[k] = <<srcdb[RowOfFit(fit_objs[k])].x, srcdb[RowOfFit(fit_objs[k])].y>>

\* C3: the three collections single mode returns have equal length and entry k
\* of each describes the same source.
C3_ParallelCollections ==
    (pc = "returned" /\ mode = "single") =>
        /\ Len(ret.coords) = Len(ret.fits)
        /\ Len(ret.images) = Len(ret.fits)
        /\ \A k \in 1..Len(ret.fits) :
             /\ ret.images[k] + 1 = ret.fits[k].c.ext
             /\ ret.coords[k] = <<srcdb[RowOfFit(ret.fits[k])].x, srcdb[RowOfFit(ret.fits[k])].y>>

\* the stamps the specification selects in frame f
QualRefs(f) ==
    {RefOfRow(k) : k \in {j \in 1..Len(srcdb) : srcdb[j].frame = f /\ Qualifies(j)}}

\* C4: in both modes the stamps read for a frame are exactly those of the
\* frame's rows with quality flag 1 and flux > 100, each at its row's position
\* among the frame's rows; stack mode stacks exactly these, single mode fits
\* only these.
C4_SelectedStamps ==
    /\ used = UNION {QualRefs(f) : f \in FramesRead}
    /\ mode = "stack" =>
         \A f \in FramesRead :
            /\ {[ext |-> st.ext, index |-> st.index] : st \in Range(psf_sum_stack[f].sum)}
                 = QualRefs(f)
            /\ Len(psf_sum_stack[f].sum) = Cardinality(QualRefs(f))
    /\ mode = "single" =>
         /\ {RefOfFit(fit_objs[k]) : k \in 1..Len(fit_objs)} \subseteq used
         /\ pc = "source" =>
              {[ext |-> st.ext, index |-> st.index] : st \in Range(stamps)} = QualRefs(i + 1)

\* stack mode returned after a frame whose only qualifying row follows a
\* non-qualifying one, in a table that holds a flagged and a faint row
C4_Witness ==
    /\ pc = "returned" /\ mode = "stack"
    /\ \E k \in 1..Len(srcdb) : srcdb[k].flag = 0
    /\ \E k \in 1..Len(srcdb) : srcdb[k].flux = 100
    /\ \E k \in 1..Len(srcdb) : Qualifies(k) /\ PosInFrame(k) = 1 /\ used = {RefOfRow(k)}

\* C5: an unknown fittype raises ValueError before the input is opened or a
\* fit attempted, and an unknown param_type raises ValueError and yields no
\* parameter list.
C5_SelectorsRejected ==
    /\ (pc # "idle" /\ fittype \notin {"ellip", "circ"}) =>
         /\ pc = "raised"
         /\ error = Raise("ValueError", "fittype")
         /\ ~opened /\ nfit = 0 /\ used = {}
    /\ (param_type # None /\ param_type \notin {"fwhm", "fwhm residuals", "phi", "ecc"}) =>
         /\ param_out.err.type = "ValueError"
         /\ Len(param_out.val) = 0

\* fit_psf_generic was called with an unknown fittype and raised
C5_Witness ==
    /\ pc = "raised" /\ fittype = "gauss"
    /\ error.type = "ValueError"
    /\ Len(srcdb) > 0

(***************************************************************************)
(* SpecParam: get_param_list on bounded inputs                             *)
(***************************************************************************)
EllipPar(g1, g2, t, beta) == <<0, 0, 1, g1, g2, t, beta, 0>>
CircPar == <<0, 0, 1, 1, 1, 0>>

\* every axis pair and every angle, for the angle convention
WidePars == {EllipPar(g1, g2, t, 1) : g1 \in 1..MaxGamma, g2 \in 1..MaxGamma,
                                      t \in (-MaxTurn)..MaxTurn}
\* FWHM 2, 3 and 5 pixels
NarrowPars == {EllipPar(1, 1, 0, 1), EllipPar(1, 2, 0, 1), EllipPar(2, 3, 0, 1)}

SeqsUpTo(S, n) == UNION {[1..L -> S] : L \in 0..n}

ParamInputs ==
    {[pars |-> <<p>>, nums |-> n] : p \in WidePars \cup {CircPar}, n \in {NoNums, Nums(<<0>>)}}
    \cup UNION {{[pars |-> ps, nums |-> n] :
                    n \in {NoNums} \cup {Nums(v) : v \in [1..Len(ps) -> 0..1]}} :
                ps \in SeqsUpTo(NarrowPars, MaxSources)}

InitParam ==
    /\ pc = "idle" /\ srcdb = <<>> /\ stamp_width = 2
    /\ mode = None /\ fittype = None /\ sigma_clip = None
    /\ opened = FALSE
    /\ i = 0 /\ stamps = <<>> /\ step_num = 0
    /\ centroid_coords = <<>> /\ fit_pars = <<>> /\ fit_objs = <<>> /\ source_images = <<>>
    /\ psf_sum_stack = <<>> /\ psf_sum_model = <<>> /\ psf_sum_model_par = <<>>
    /\ fit = None /\ used = {} /\ nfit = 0
    /\ error = NoError /\ ret = None /\ written = None
    /\ p0 = NoP0 /\ gsp = NoGsp
    /\ \E inp \in ParamInputs : pars = inp.pars /\ img_nums = inp.nums
    /\ param_type = None /\ param_out = Ok(<<>>)
    /\ data = <<>> /\ clip_out = NotClipped
    /\ IdleRed /\ IdleStack

\* one call of get_param_list(param_type, pars, shape, img_nums)
GetParamList ==
    /\ param_type = None
    /\ \E pt \in ParamTypes :
         /\ param_type' = pt
         /\ param_out' = get_param_list(pt, pars, img_nums)
    /\ UNCHANGED <<pars, img_nums, fitVars, clipVars, redVars, stackVars>>

NextParam == GetParamList

SpecParam == InitParam /\ [][NextParam]_vars

\* the same ellipse with its axes relabelled: gamma1 and gamma2 swapped, phi + 90 degrees
Relabel(par) == [par EXCEPT ![4] = par[5], ![5] = par[4], ![6] = par[6] + 6]

\* C6: get_nice_phi returns an angle in (-45, 45] degrees for every elliptical
\* parameter vector with positive gamma1 and gamma2.
C6_NicePhiRange ==
    param_type = "phi" =>
        \A k \in 1..Len(pars) :
            (Len(pars[k]) = 8 /\ Col(pars[k], 3) > 0 /\ Col(pars[k], 4) > 0) =>
                (-45 < param_out.val[k] /\ param_out.val[k] <= 45)

\* C7: get_nice_phi(gamma1, gamma2, phi) = get_nice_phi(gamma2, gamma1, phi + 90),
\* also when gamma1 = gamma2, and the call leaves the parameter vectors unchanged.
C7_RelabelInvariant ==
    [][(param_type = None /\ param_type' = "phi") =>
          /\ pars' = pars
          /\ \A k \in 1..Len(pars) :
                Len(pars[k]) = 8 => param_out'.val[k] = get_nice_phi(Relabel(pars[k]))]_vars

\* the FWHM of one source as get_param_list averages it, doubled, in tenths of a pixel
Fwhm2Of(par) == to_fwhm(Col(par, 3), Col(par, 6)) + to_fwhm(Col(par, 4), Col(par, 6))

\* frame 0 with FWHMs 2 and 3, frame 1 with FWHMs 5 and 5
ExamplePars == <<EllipPar(1, 1, 0, 1), EllipPar(1, 2, 0, 1), EllipPar(2, 3, 0, 1), EllipPar(2, 3, 0, 1)>>

\* C9: 'fwhm residuals' returns for every source its FWHM minus the minimum
\* FWHM of the sources with the same frame index, times the plate scale: every
\* residual is >= 0, every frame has a source with residual 0, a residual does
\* not depend on the sources of other frames, and FWHMs [2,3] in frame 0 and
\* [5,5] in frame 1 give [0,1,0,0] times the plate scale.
C9_ResidualsPerFrame ==
    (param_type = "fwhm residuals" /\ param_out.err = NoError) =>
        LET nums == img_nums.v
            val == param_out.val
            Same(k) == {j \in 1..Len(nums) : nums[j] = nums[k]}
            sameMask(k) == [j \in 1..Len(nums) |-> nums[j] = nums[k]]
            alone(k) == get_param_list("fwhm residuals", MaskSel(pars, sameMask(k)),
                                       Nums(MaskSel(nums, sameMask(k)))).val
            rank(k) == Cardinality({j \in Same(k) : j <= k})
        IN /\ Len(val) = Len(pars)
           /\ \A k \in 1..Len(pars) :
                /\ val[k] = (Fwhm2Of(pars[k]) - MinOf({Fwhm2Of(pars[j]) : j \in Same(k)}))
                              * plate_scale_approx
                /\ val[k] >= 0
                /\ \E j \in Same(k) : val[j] = 0
                /\ val[k] = alone(k)[rank(k)]
           /\ (pars = ExamplePars /\ nums = <<0, 0, 1, 1>>) =>
                val = <<0, 20 * plate_scale_approx, 0, 0>>

\* the residuals of the two-frame example have been computed
C9_Witness ==
    /\ param_type = "fwhm residuals"
    /\ pars = ExamplePars
    /\ img_nums = Nums(<<0, 0, 1, 1>>)
    /\ param_out.err = NoError
    /\ param_out.val[2] > 0

\* C10: 'fwhm residuals' without frame indices fails with an error for every
\* parameter array and returns no residuals.
C10_ResidualsNeedFrames ==
    (param_type = "fwhm residuals" /\ ~img_nums.given) =>
        /\ param_out.err.type # "none"
        /\ Len(param_out.val) = 0

\* 'fwhm residuals' was asked of several sources of differing FWHM with img_nums = None
C10_Witness ==
    /\ param_type = "fwhm residuals"
    /\ ~img_nums.given
    /\ Len(pars) >= 2
    /\ \E j, k \in 1..Len(pars) : pars[j] # pars[k]
    /\ param_out.err.type = "TypeError"

(***************************************************************************)
(* SpecClip: sigma_clipper on FWHM arrays with one outlier                 *)
(***************************************************************************)
\* n values, all v except one of 10 v at position at
OneOutlier(n, at, v) == [k \in 1..n |-> IF k = at THEN 10 * v ELSE v]

OutlierArrays == UNION {{OneOutlier(n, at, v) : at \in 1..n, v \in 1..3} : n \in 2..MaxN}

InitClip ==
    /\ pc = "idle" /\ srcdb = <<>> /\ stamp_width = 2
    /\ mode = None /\ fittype = None /\ sigma_clip = None
    /\ opened = FALSE
    /\ i = 0 /\ stamps = <<>> /\ step_num = 0
    /\ centroid_coords = <<>> /\ fit_pars = <<>> /\ fit_objs = <<>> /\ source_images = <<>>
    /\ psf_sum_stack = <<>> /\ psf_sum_model = <<>> /\ psf_sum_model_par = <<>>
    /\ fit = None /\ used = {} /\ nfit = 0
    /\ error = NoError /\ ret = None /\ written = None
    /\ p0 = NoP0 /\ gsp = NoGsp
    /\ param_type = None /\ pars = <<>> /\ img_nums = NoNums /\ param_out = Ok(<<>>)
    /\ data \in OutlierArrays
    /\ clip_out = NotClipped
    /\ IdleRed /\ IdleStack

\* lines 200-201: masked_fwhm1 = sigma_clipper(fwhm1)
ApplySigmaClip ==
    /\ clip_out.iters = 0
    /\ clip_out' = sigma_clipper(data)
    /\ UNCHANGED <<data, fitVars, paramVars, redVars, stackVars>>

NextClip == ApplySigmaClip

SpecClip == InitClip /\ [][NextClip]_vars

\* the mask that removes the outlier and nothing else
OutlierMask(d) == [k \in 1..Len(d) |-> d[k] = MaxOf(Range(d))]
NoMask(d) == [k \in 1..Len(d) |-> FALSE]

\* C8 as stated: for every length n >= 2 the clipping removes exactly the
\* outlier and reaches its fixed point within the 5 iterations.
C8_OutlierRemoved ==
    clip_out.iters > 0 =>
        /\ clip_out.mask = OutlierMask(data)
        /\ clip_out.nchanged = 0
        /\ clip_out.iters <= 5

\* C8 amended: for n >= 15 the clipping removes exactly the outlier and
\* reaches its fixed point within the 5 iterations; for 2 <= n <= 14 the
\* outlier lies within 4 standard deviations of the median and nothing is
\* removed.
C8_OutlierRemovedFrom15 ==
    clip_out.iters > 0 =>
        /\ Len(data) >= 15 =>
             /\ clip_out.mask = OutlierMask(data)
             /\ clip_out.nchanged = 0
             /\ clip_out.iters <= 5
        /\ Len(data) < 15 =>
             /\ clip_out.mask = NoMask(data)
             /\ clip_out.nchanged = 0

\* an array of 15 values has been clipped down to its 14 equal values
C8_Witness ==
    /\ Len(data) = 15
    /\ clip_out.iters = 2
    /\ clip_out.mask = OutlierMask(data)

(***************************************************************************)
(* SpecReduce: reduce_all (pipelines/reduction.py) over small tables of    *)
(* raw frames.  A frame is a row [id, objects, filters, head]: its object  *)
(* label, its filter, and path.stem.split('_')[0].  A stacked frame is     *)
(* [frames, type]: the ids it was combined from.                           *)
(***************************************************************************)
MaxFiles == 4

\* lines 309-314: the normalised labels of pipnick.utils.nickel_data
bias_label == "bias"
dark_label == "dark"
dome_flat_label == "domeflat"
sky_flat_label == "skyflat"
sky_flat_label_alt == "skyflat_alt"
focus_label == "focus"

Filters == {"B", "V"}
ScienceObjects == {"target1", "target2"}

\* the kinds of raw frame; the filter of a bias, dark or focus frame is not read
FileKinds ==
    << [objects |-> bias_label, filters |-> "B"],
       [objects |-> dark_label, filters |-> "B"],
       [objects |-> focus_label, filters |-> "B"],
       [objects |-> dome_flat_label, filters |-> "B"],
       [objects |-> dome_flat_label, filters |-> "V"],
       [objects |-> sky_flat_label, filters |-> "B"],
       [objects |-> sky_flat_label, filters |-> "V"],
       [objects |-> sky_flat_label_alt, filters |-> "B"],
       [objects |-> sky_flat_label_alt, filters |-> "V"],
       [objects |-> "target1", filters |-> "B"],
       [objects |-> "target1", filters |-> "V"],
       [objects |-> "target2", filters |-> "B"],
       [objects |-> "target2", filters |-> "V"] >>

\* raw file names: d<id>.fits, or night_<id>.fits whose part before '_' is shared
Namings == {"plain", "prefixed"}

RawTables ==
    UNION {{[k \in 1..n |-> [id |-> k,
                             objects |-> FileKinds[q[k]].objects,
                             filters |-> FileKinds[q[k]].filters,
                             head |-> IF nm = "plain" THEN k ELSE 0]] :
              q \in {r \in [1..n -> 1..Len(FileKinds)] :
                        \A k \in 1..(n - 1) : r[k] <= r[k + 1]},
              nm \in Namings} :
           n \in 1..MaxFiles}

Ids(df) == {df[k].id : k \in 1..Len(df)}

\* lines 189-203 as seen by the callers: the frames that were combined
StackOf(df, type) == [frames |-> Ids(df), type |-> type]

\* what a file on disk holds
Content(frames, type, over, unbias, flat) ==
    [frames |-> frames, type |-> type, over |-> over, unbias |-> unbias, flat |-> flat]

\* file.write(path, overwrite=True)
Write(disk, path, content) ==
    {f \in disk : f.path # path} \cup {[path |-> path, content |-> content]}

Path(dir, head, name) == [dir |-> dir, head |-> head, name |-> name]

\* line 303: save_dir / (path.stem.split('_')[0] + "_<modifier>" + path.suffix)
SavePaths(df, modifier_str, save_dir) ==
    [k \in 1..Len(df) |-> Path(save_dir, df[k].head, <<modifier_str>>)]

\* lines 304-305: the files are written in order
RECURSIVE WriteAll(_, _, _, _)
WriteAll(disk, df, paths, flat) ==
    IF Len(df) = 0 THEN disk
    ELSE WriteAll(Write(disk, paths[1],
                        Content({df[1].id}, "science", df[1].over, df[1].unbias, flat)),
                  Tail(df), Tail(paths), flat)

\* lines 283-306
save_results(disk, df, modifier_str, save_dir, flat) ==
    WriteAll(disk, df, SavePaths(df, modifier_str, save_dir), flat)

\* the flat label chosen when dome flats are looked for first
flattype_dome_first(df) ==
    LET labels == {df[k].objects : k \in 1..Len(df)}
    IN IF dome_flat_label \in labels THEN dome_flat_label
       ELSE IF sky_flat_label_alt \in labels THEN sky_flat_label_alt
       ELSE sky_flat_label

\* lines 257-262
flattype(df) ==
    LET labels == {df[k].objects : k \in 1..Len(df)}
    IN IF sky_flat_label \in labels THEN sky_flat_label
       ELSE IF sky_flat_label_alt \in labels THEN sky_flat_label_alt
       ELSE dome_flat_label

\* lines 74-79
scifiles_mask(df) ==
    [k \in 1..Len(df) |->
        /\ df[k].objects # bias_label
        /\ df[k].objects # dark_label
        /\ df[k].objects # dome_flat_label
        /\ df[k].objects # sky_flat_label
        /\ df[k].objects # sky_flat_label_alt
        /\ df[k].objects # focus_label]

InitReduce ==
    /\ file_df \in RawTables
    /\ save_inters \in BOOLEAN
    /\ rpc = "start"
    /\ master_bias = NoStack /\ master_flats = <<>> /\ scifile_df = <<>>
    /\ todo_filts = {} /\ saved = {} /\ all_red_paths = <<>>
    /\ red_error = NoError /\ red_ret = <<>>
    /\ pc = "idle" /\ srcdb = <<>> /\ stamp_width = 2
    /\ mode = None /\ fittype = None /\ sigma_clip = None
    /\ opened = FALSE
    /\ i = 0 /\ stamps = <<>> /\ step_num = 0
    /\ centroid_coords = <<>> /\ fit_pars = <<>> /\ fit_objs = <<>> /\ source_images = <<>>
    /\ psf_sum_stack = <<>> /\ psf_sum_model = <<>> /\ psf_sum_model_par = <<>>
    /\ fit = None /\ used = {} /\ nfit = 0
    /\ error = NoError /\ ret = None /\ written = None
    /\ p0 = NoP0 /\ gsp = NoGsp
    /\ param_type = None /\ pars = <<>> /\ img_nums = NoNums /\ param_out = Ok(<<>>)
    /\ data = <<>> /\ clip_out = NotClipped
    /\ IdleStack

\* lines 70, 205-234; ccdproc.Combiner of an empty list raises
get_master_bias ==
    /\ rpc = "start"
    /\ LET IsBias(f) == f.objects = bias_label
           bias_df == SelectSeq(file_df, IsBias)
       IN IF Len(bias_df) = 0
          THEN /\ rpc' = "raised"
               /\ red_error' = Raise("TypeError", "Combiner")
               /\ UNCHANGED <<master_bias, saved>>
          ELSE /\ master_bias' = StackOf(bias_df, "bias")
               /\ saved' = IF save_inters
                           THEN Write(saved, Path(<<"processing">>, 0, <<"master_bias">>),
                                      Content(Ids(bias_df), "bias", TRUE, FALSE, NoStack))
                           ELSE saved
               /\ rpc' = "flats"
               /\ UNCHANGED red_error
    /\ UNCHANGED <<file_df, save_inters, master_flats, scifile_df, todo_filts,
                   all_red_paths, red_ret>>
    /\ UNCHANGED <<fitVars, paramVars, clipVars, stackVars>>

\* line 269: set(file_df.filters[file_df.objects == flattype])
FlatFilters(df) == {df[k].filters : k \in {j \in 1..Len(df) : df[j].objects = flattype(df)}}

\* line 270: file_df[(file_df.objects == flattype) & (file_df.filters == filt)]
flat_df(df, filt) ==
    LET IsFlat(f) == f.objects = flattype(df) /\ f.filters = filt
    IN SelectSeq(df, IsFlat)

RECURSIVE WriteFlats(_, _)
WriteFlats(disk, filts) ==
    IF filts = {} THEN disk
    ELSE LET filt == CHOOSE f \in filts : TRUE
         IN WriteFlats(Write(disk, Path(<<"processing">>, 0, <<"master_flat", filt>>),
                             Content(Ids(flat_df(file_df, filt)), "flat", TRUE, FALSE, NoStack)),
                       filts \ {filt})

\* lines 71, 236-281
get_master_flats ==
    /\ rpc = "flats"
    /\ master_flats' = [filt \in FlatFilters(file_df) |->
                           StackOf(flat_df(file_df, filt), "flat")]
    /\ saved' = IF save_inters THEN WriteFlats(saved, FlatFilters(file_df)) ELSE saved
    /\ rpc' = "science"
    /\ UNCHANGED <<file_df, save_inters, master_bias, scifile_df, todo_filts,
                   all_red_paths, red_error, red_ret>>
    /\ UNCHANGED <<fitVars, paramVars, clipVars, stackVars>>

\* lines 73-97: the science rows, trim_overscan, subtract_bias, the saves of
\* the intermediate frames
ScienceFrames ==
    /\ rpc = "science"
    /\ LET sci == MaskSel(file_df, scifiles_mask(file_df))
           over == [k \in 1..Len(sci) |->
                       [id |-> sci[k].id, objects |-> sci[k].objects,
                        filters |-> sci[k].filters, head |-> sci[k].head,
                        over |-> TRUE, unbias |-> FALSE]]
           unbias == [k \in 1..Len(sci) |-> [over[k] EXCEPT !.unbias = TRUE]]
           disk1 == IF save_inters
                    THEN save_results(saved, over, "over", <<"processing", "overscan">>, NoStack)
                    ELSE saved
           disk2 == IF save_inters
                    THEN save_results(disk1, unbias, "unbias", <<"processing", "unbias">>, NoStack)
                    ELSE disk1
       IN /\ scifile_df' = unbias
          /\ saved' = disk2
    /\ all_red_paths' = <<>>
    /\ todo_filts' = DOMAIN master_flats
    /\ rpc' = "divide"
    /\ UNCHANGED <<file_df, save_inters, master_bias, master_flats, red_error, red_ret>>
    /\ UNCHANGED <<fitVars, paramVars, clipVars, stackVars>>

\* line 100: list(set(...)) has no defined order
Orders(S) == {o \in [1..Cardinality(S) -> S] : \A x \in S : \E k \in DOMAIN o : o[k] = x}

\* lines 104-105
sub_scifile_df(scienceobject, filt) ==
    LET IsSub(f) == f.objects = scienceobject /\ f.filters = filt
    IN SelectSeq(scifile_df, IsSub)

\* lines 102-114: the science objects of one filter, in the order given
RECURSIVE DivideObjects(_, _, _, _)
DivideObjects(disk, paths, objs, filt) ==
    IF Len(objs) = 0 THEN [disk |-> disk, paths |-> paths]
    ELSE LET sub == sub_scifile_df(objs[1], filt)
             sci_dir == <<"reduced", objs[1], filt>>
         IN DivideObjects(save_results(disk, sub, "red", sci_dir, master_flats[filt]),
                          paths \o SavePaths(sub, "red", sci_dir),
                          Tail(objs), filt)

\* lines 98-114: one iteration of the loop over master_flats.keys()
FlatDivide ==
    /\ rpc = "divide"
    /\ \E filt \in todo_filts :
         LET scienceobjects == {scifile_df[k].objects :
                                   k \in {j \in 1..Len(scifile_df) : scifile_df[j].filters = filt}}
         IN \E objs \in Orders(scienceobjects) :
              LET out == DivideObjects(saved, all_red_paths, objs, filt)
              IN /\ saved' = out.disk
                 /\ all_red_paths' = out.paths
                 /\ todo_filts' = todo_filts \ {filt}
    /\ UNCHANGED <<file_df, save_inters, rpc, master_bias, master_flats, scifile_df,
                   red_error, red_ret>>
    /\ UNCHANGED <<fitVars, paramVars, clipVars, stackVars>>

\* lines 116-119
ReduceReturn ==
    /\ rpc = "divide" /\ todo_filts = {}
    /\ red_ret' = all_red_paths
    /\ rpc' = "returned"
    /\ UNCHANGED <<file_df, save_inters, master_bias, master_flats, scifile_df,
                   todo_filts, saved, all_red_paths, red_error>>
    /\ UNCHANGED <<fitVars, paramVars, clipVars, stackVars>>

NextReduce ==
    \/ get_master_bias
    \/ get_master_flats
    \/ ScienceFrames
    \/ FlatDivide
    \/ ReduceReturn

SpecReduce == InitReduce /\ [][NextReduce]_vars

FlatLabels == {sky_flat_label, sky_flat_label_alt, dome_flat_label}
LabelsOf(df) == {df[k].objects : k \in 1..Len(df)}
FlatsBuilt == rpc \in {"science", "divide", "returned"}
RowOfId(id) == file_df[id]

\* C11: every master flat is combined from frames of one label only, the
\* sky-flat label when the table has a sky flat, else the alternate sky-flat
\* label when it has one, else the dome-flat label; no frame of a
\* lower-priority label is ever combined.
C11_FlatPriority ==
    FlatsBuilt =>
        LET best == IF sky_flat_label \in LabelsOf(file_df) THEN sky_flat_label
                    ELSE IF sky_flat_label_alt \in LabelsOf(file_df) THEN sky_flat_label_alt
                    ELSE dome_flat_label
        IN \A filt \in DOMAIN master_flats :
              /\ master_flats[filt].frames # {}
              /\ \A id \in master_flats[filt].frames : RowOfId(id).objects = best

\* master flats were built from a table holding two flat labels
C11_Witness ==
    /\ FlatsBuilt
    /\ DOMAIN master_flats # {}
    /\ Cardinality(LabelsOf(file_df) \cap FlatLabels) >= 2

IsScience(f) == f.objects \notin (FlatLabels \cup {bias_label, dark_label, focus_label})
ScienceIds == {k \in 1..Len(file_df) : IsScience(file_df[k])}
RedFiles == {f \in saved : f.path.name = <<"red">>}

\* C16 as stated: when reduce_all returns, every science frame of the table
\* has exactly one '_red' file, written under <object>_<filter>, holding
\* that frame overscan-trimmed, bias-subtracted and divided by the master
\* flat of its own filter; the returned paths are the paths of these files;
\* no other frame is written as a reduced file.
C16_EveryScienceReduced ==
    rpc = "returned" =>
        /\ \A id \in ScienceIds :
              /\ Cardinality({f \in RedFiles : f.content.frames = {id}}) = 1
              /\ Cardinality({k \in 1..Len(red_ret) :
                                 red_ret[k] = Path(<<"reduced", RowOfId(id).objects,
                                                     RowOfId(id).filters>>,
                                                   RowOfId(id).head, <<"red">>)}) = 1
        /\ \A f \in RedFiles :
              /\ f.content.frames \subseteq ScienceIds
              /\ \E id \in f.content.frames :
                    /\ f.path.dir = <<"reduced", RowOfId(id).objects, RowOfId(id).filters>>
                    /\ f.content.over /\ f.content.unbias
                    /\ RowOfId(id).filters \in DOMAIN master_flats
                    /\ f.content.flat = master_flats[RowOfId(id).filters]
        /\ Len(red_ret) = Cardinality(ScienceIds)

\* C17 as stated: the returned dictionary has one master flat for every
\* filter in which a flat frame of any of the three labels was taken, each
\* combined only from frames of that filter.
C17_EveryFlatFilter ==
    FlatsBuilt =>
        /\ DOMAIN master_flats =
              {file_df[k].filters : k \in {j \in 1..Len(file_df) :
                                              file_df[j].objects \in FlatLabels}}
        /\ \A filt \in DOMAIN master_flats :
              /\ master_flats[filt].frames # {}
              /\ \A id \in master_flats[filt].frames :
                    /\ RowOfId(id).filters = filt
                    /\ RowOfId(id).objects \in FlatLabels

(***************************************************************************)
(* Claims about get_source_pars and get_p0 (Spec)                          *)
(***************************************************************************)
\* C12 as stated: when get_source_pars returns, the model that was fitted
\* is the one named by its fittype argument, and every returned parameter
\* vector has that model's length (8 for 'ellip', 6 for 'circ').
C12_FittypePassedOn ==
    gsp.at = "returned" =>
        /\ fittype = gsp.fittype
        /\ \A k \in 1..Len(gsp.source_pars) :
              Len(gsp.source_pars[k]) = num_pars(gsp.fittype)

\* C13 as stated: the amplitude of every initial guess is the largest pixel
\* of the whole image being fitted (the stamp in single mode, the frame's
\* weighted stack in stack mode), whatever the frame index.
C13_AmplitudeIsPeak ==
    nfit > 0 =>
        /\ mode = "single" =>
              /\ p0.amplitude.num = amax2(StampImage(fit.c))
              /\ p0.amplitude.den = 1
        /\ mode = "stack" =>
              /\ p0.amplitude.num = amax2(SumImages(fit.c.sum))
              /\ p0.amplitude.den = fit.c.norm

(***************************************************************************)
(* SpecStack: stack_frames (pipelines/reduction.py) on small stacks.       *)
(* data_arr[f][p] is pixel p of trimmed frame f, data_mask[f][p] its mask  *)
(* in the Combiner.  A pixel column holds the value 1 in every frame but   *)
(* a large deviant (100 or -100) in at most one frame and a small one (10) *)
(* in at most one other.                                                   *)
(***************************************************************************)
MaxFrames == 12

PixelCounts == {1, 2}
FrameTypes == {"bias", "flat"}

Column(n, a, b, sign) ==
    [f \in 1..n |-> IF f = a THEN sign * 100 ELSE IF f = b THEN 10 ELSE 1]

\* the deviants of the first pixel: the large one in no frame, the first or
\* the last, the small one in no frame or the second
FirstColumns(n) ==
    {Column(n, a, b, sign) : a \in {0, 1, n}, b \in {0, 2}, sign \in {1, -1}}

\* the deviants of the other pixels
OtherColumns(n) ==
    {Column(n, a, a + 1, 1) : a \in {0, 1}}

\* the masks the frames come with (init_ccddata): none, or one pixel of the
\* first or of the last frame
ColumnMasks(n) == {[f \in 1..n |-> f = m] : m \in {0, 1, n}}

\* a stack of n frames of np pixels: the first pixel column, then copies of
\* the other
Stacks ==
    UNION {{[arr |-> [f \in 1..n |-> [p \in 1..np |-> IF p = 1 THEN first[f] ELSE other[f]]],
             mask |-> [f \in 1..n |-> [p \in 1..np |->
                          IF p = 1 THEN fmask[f] ELSE omask /\ f = n]]] :
               first \in FirstColumns(n), fmask \in ColumnMasks(n),
               other \in OtherColumns(n), omask \in BOOLEAN, np \in PixelCounts} :
           n \in 1..MaxFrames}

NumFrames == Len(data_arr)
NumPixels == Len(data_arr[1])

\* combiner.data_arr.mask.sum()
MaskSum(mask) ==
    Cardinality({fp \in (1..Len(mask)) \X (1..Len(mask[1])) : mask[fp[1]][fp[2]]})

\* the unmasked frames of pixel p
Unmasked(mask, p) == {f \in 1..Len(mask) : ~mask[f][p]}

\* the sum over the unmasked frames of pixel p of the values (power 1) or of
\* their squares (power 2)
SumOver(arr, mask, p, power) ==
    LET term(f) == IF mask[f][p] THEN 0
                   ELSE IF power = 2 THEN arr[f][p] * arr[f][p] ELSE arr[f][p]
        F[k \in 0..Len(arr)] == IF k = 0 THEN 0 ELSE F[k - 1] + term(k)
    IN F[Len(arr)]

\* line 195: combiner.sigma_clipping(low_thresh=3, high_thresh=3, func=np.ma.mean):
\* along the frame axis, a value further than 3 standard deviations from the
\* mean of the unmasked values of its pixel is masked.  With n unmasked
\* values, sum S and sum of squares Q: |x - S/n| > 3 sqrt(Q/n - (S/n)^2)
\* iff (n x - S)^2 > 9 (n Q - S^2).
Deviates(arr, mask, f, p) ==
    LET fs == Unmasked(mask, p)
        n == Cardinality(fs)
        S == SumOver(arr, mask, p, 1)
        Q == SumOver(arr, mask, p, 2)
        d == n * arr[f][p] - S
    IN d * d > 9 * (n * Q - S * S)

sigma_clipping(arr, mask) ==
    [f \in 1..Len(arr) |->
       [p \in 1..Len(arr[1]) |-> mask[f][p] \/ Deviates(arr, mask, f, p)]]

\* the loop goes on while the count has not fallen
LoopTestNotLess == new_n_masked >= old_n_masked

\* line 194: while new_n_masked > old_n_masked
LoopTest == new_n_masked > old_n_masked

\* lines 199-202: average_combine over the unmasked values of each pixel,
\* every frame scaled by 1 / its average when frame_type is 'flat'
average_combine(mask, type) ==
    [p \in 1..Len(mask[1]) |-> [frames |-> Unmasked(mask, p), scaled |-> type = "flat"]]

InitStack ==
    /\ frame_type \in FrameTypes
    /\ \E st \in Stacks : data_arr = st.arr /\ data_mask = st.mask
    /\ old_n_masked = 0 /\ new_n_masked = 0
    /\ spc = "called" /\ passes = 0 /\ stack = <<>>
    /\ pc = "idle" /\ srcdb = <<>> /\ stamp_width = 2
    /\ mode = None /\ fittype = None /\ sigma_clip = None
    /\ opened = FALSE
    /\ i = 0 /\ stamps = <<>> /\ step_num = 0
    /\ centroid_coords = <<>> /\ fit_pars = <<>> /\ fit_objs = <<>> /\ source_images = <<>>
    /\ psf_sum_stack = <<>> /\ psf_sum_model = <<>> /\ psf_sum_model_par = <<>>
    /\ fit = None /\ used = {} /\ nfit = 0
    /\ error = NoError /\ ret = None /\ written = None
    /\ p0 = NoP0 /\ gsp = NoGsp
    /\ param_type = None /\ pars = <<>> /\ img_nums = NoNums /\ param_out = Ok(<<>>)
    /\ data = <<>> /\ clip_out = NotClipped
    /\ IdleRed

\* lines 189-193
stack_frames ==
    /\ spc = "called"
    /\ old_n_masked' = 0
    /\ new_n_masked' = 1
    /\ spc' = "loop"
    /\ UNCHANGED <<frame_type, data_arr, data_mask, passes, stack>>
    /\ UNCHANGED <<fitVars, paramVars, clipVars, redVars>>

\* lines 194-197: one pass of the loop (the pass count is kept below the
\* number of pixels + 3)
ClipPass ==
    /\ spc = "loop" /\ LoopTest
    /\ passes <= NumFrames * NumPixels + 1
    /\ data_mask' = sigma_clipping(data_arr, data_mask)
    /\ old_n_masked' = new_n_masked
    /\ new_n_masked' = MaskSum(data_mask')
    /\ passes' = passes + 1
    /\ UNCHANGED <<frame_type, data_arr, spc, stack>>
    /\ UNCHANGED <<fitVars, paramVars, clipVars, redVars>>

\* lines 194, 199-203: the loop is left, the frames are averaged
Combine ==
    /\ spc = "loop" /\ ~LoopTest
    /\ stack' = average_combine(data_mask, frame_type)
    /\ spc' = "done"
    /\ UNCHANGED <<frame_type, data_arr, data_mask, old_n_masked, new_n_masked, passes>>
    /\ UNCHANGED <<fitVars, paramVars, clipVars, redVars>>

NextStack ==
    \/ stack_frames
    \/ ClipPass
    \/ Combine

SpecStack == InitStack /\ [][NextStack]_vars

\* every step of stack_frames that can be taken is eventually taken
SpecStackFair == SpecStack /\ WF_vars(NextStack)

\* C14 as stated: when the loop has been left, one more pass of the sigma
\* clipping would mask no further pixel, whatever the number of pixels
\* masked at the start and by the first pass.
C14_FixedPointAtExit ==
    spc = "done" => sigma_clipping(data_arr, data_mask) = data_mask

\* C19: the clipping loop makes at most (number of pixels in the stack + 1)
\* passes, and stack_frames always goes on to average the frames.
C19_ClippingTerminates ==
    /\ [](passes <= NumFrames * NumPixels + 1)
    /\ <>(spc = "done")

\* the frames were averaged after three passes of the loop
C19_Witness ==
    /\ spc = "done"
    /\ passes = 3

(***************************************************************************)
(* Claims about stack mode (Spec)                                          *)
(***************************************************************************)
\* the qualifying rows of frame f, in table order
QualRows(f) ==
    MaskSel([k \in 1..Len(srcdb) |-> k],
            [k \in 1..Len(srcdb) |-> srcdb[k].frame = f /\ Qualifies(k)])

\* the weighted stack of frame f: its qualifying stamps, summed, over the sum
\* of their fluxes
OwnStack(f) ==
    [sum |-> [t \in 1..Len(QualRows(f)) |-> hdu_data(f)[PosInFrame(QualRows(f)[t]) + 1]],
     norm |-> SumSeq([t \in 1..Len(QualRows(f)) |-> srcdb[QualRows(f)[t]].flux])]

\* C18: in stack mode a step that handles frame j leaves the STACK, MOFFAT
\* and PAR entries of every other frame as they were; when the function
\* returns, the three persisted arrays have one entry per frame, entry f
\* holding frame f's own weighted stack, the model of that stack and its
\* fitted parameters, and the fit returned is that of the last frame.
C18_StackEntriesPerFrame ==
    [][(mode = "stack" /\ pc = "frame") =>
         /\ \A f \in 1..NumImages :
               f # i + 1 =>
                  /\ psf_sum_stack'[f] = psf_sum_stack[f]
                  /\ psf_sum_model'[f] = psf_sum_model[f]
                  /\ psf_sum_model_par'[f] = psf_sum_model_par[f]
         /\ pc' = "returned" =>
               /\ Len(written'.STACK) = NumImages
               /\ Len(written'.MOFFAT) = NumImages
               /\ Len(written'.PAR) = NumImages
               /\ \A f \in 1..NumImages :
                     /\ written'.STACK[f] = OwnStack(f)
                     /\ written'.MOFFAT[f] = [model_of |-> OwnStack(f)]
                     /\ written'.PAR[f] = FitPar(fittype, [ext |-> f, index |-> 0])
               /\ ret'.c = OwnStack(NumImages)
               /\ ret'.par = written'.PAR[NumImages]
      ]_vars

\* stack mode returned with a frame whose stack is of two stamps and a later
\* frame whose stack is of one
C18_Witness ==
    /\ pc = "returned" /\ mode = "stack"
    /\ \E f, g \in 1..NumImages :
          /\ f < g
          /\ Len(written.STACK[f].sum) = 2
          /\ Len(written.STACK[g].sum) = 1

(***************************************************************************)
(* SpecSigma: the end of fit_psf_generic in single mode with sigma_clip,   *)
(* entered after a frame loop that accumulated MinFits or more fits (the   *)
(* clipping removes nothing from fewer).  The sources are those of the     *)
(* last frame; source a has gamma1 (and gamma2) ten times the others',     *)
(* source b has gamma2 ten times the others'.                              *)
(***************************************************************************)
MaxFits == 16

\* the fewest values of which the clipping removes a lone outlier: it lies
\* sqrt(n - 1) population standard deviations from the others, n / sqrt(n - 1)
\* from their median, so the least n with n^2 > sigma^2 (n - 1)
MinFits ==
    CHOOSE n \in 2..MaxFits :
        /\ n * n > ClipSigma * ClipSigma * (n - 1)
        /\ \A m \in 2..(n - 1) : m * m <= ClipSigma * ClipSigma * (m - 1)

\* the parameter vector fitted to source k
WidePar(ft, k, a, b) ==
    IF ft = "ellip"
    THEN <<2, 2, 1, IF k = a THEN 10 ELSE 1, IF k = a \/ k = b THEN 10 ELSE 1, 0, 1, 0>>
    ELSE <<2, 2, 1, IF k = a THEN 10 ELSE 1, 1, 0>>

FitOf(ft, k, a, b) ==
    [c |-> [conv |-> TRUE, ext |-> NumImages, index |-> k - 1], par |-> WidePar(ft, k, a, b)]

InitSigma ==
    /\ pc = "frame" /\ mode = "single" /\ sigma_clip = TRUE
    /\ fittype \in {"ellip", "circ"}
    /\ stamp_width = 4
    /\ opened = TRUE
    /\ i = NumImages /\ stamps = <<>> /\ step_num = 0
    /\ \E n \in MinFits..MaxFits : \E a \in 0..n : \E b \in 0..n :
         /\ srcdb = [k \in 1..n |->
                       [frame |-> NumImages, stamp |-> k - 1, x |-> 10 * k, y |-> 10 * k + 1,
                        flux |-> 1000, flag |-> 1, conv |-> TRUE]]
         /\ centroid_coords = [k \in 1..n |-> <<10 * k, 10 * k + 1>>]
         /\ fit_pars = [k \in 1..n |-> WidePar(fittype, k, a, b)]
         /\ fit_objs = [k \in 1..n |-> FitOf(fittype, k, a, b)]
         /\ source_images = [k \in 1..n |-> NumImages - 1]
         /\ fit = FitOf(fittype, n, a, b)
         /\ used = {[ext |-> NumImages, index |-> k - 1] : k \in 1..n}
         /\ nfit = n
    /\ p0 = get_p0(fittype, StampImage(fit.c), 1, NumImages - 1)
    /\ psf_sum_stack = <<>> /\ psf_sum_model = <<>> /\ psf_sum_model_par = <<>>
    /\ error = NoError /\ ret = None /\ written = None
    /\ gsp = NoGsp
    /\ param_type = None /\ pars = <<>> /\ img_nums = NoNums /\ param_out = Ok(<<>>)
    /\ data = <<>> /\ clip_out = NotClipped
    /\ IdleRed /\ IdleStack

NextSigma == FinishSingle

SpecSigma == InitSigma /\ [][NextSigma]_vars

\* the sources with a tenfold gamma1 (gamma, for the circular model)
Wide1 == {k \in 1..Len(fit_pars) : Col(fit_pars[k], 3) = 10}

\* the other sources with a tenfold gamma2
Wide2 ==
    IF fittype = "ellip"
    THEN {k \in 1..Len(fit_pars) : Col(fit_pars[k], 4) = 10} \ Wide1
    ELSE {}

\* what is left after a first pass that removes the gamma1 outlier and, for
\* the elliptical model, a second pass over the sources left: it removes
\* their gamma2 outlier if MinFits of them are left
Survivors ==
    LET left1 == (1..Len(fit_pars)) \ Wide1
    IN IF fittype = "ellip" /\ Cardinality(left1) >= MinFits
       THEN left1 \ Wide2
       ELSE left1

Keep(s, S) == MaskSel(s, [k \in 1..Len(s) |-> k \in S])

\* C15: with sigma_clip the elliptical model is clipped in two passes, on
\* the gamma1 FWHM of all the fits and then on the gamma2 FWHM of the fits
\* the first pass kept, and the circular model in one pass; the three
\* returned collections are the same order-preserving subsequence of the
\* accumulated ones; a fit the first pass removed has no part in the
\* statistics of the second.
C15_TwoSequentialPasses ==
    (pc = "returned" /\ mode = "single" /\ sigma_clip = TRUE /\ Len(fit_pars) >= MinFits) =>
        /\ ret.fits = Keep(fit_objs, Survivors)
        /\ ret.coords = Keep(centroid_coords, Survivors)
        /\ ret.images = Keep(source_images, Survivors)

\* the elliptical model returned MaxFits - 2 of MaxFits fits: the first pass
\* removed one (whose gamma2 is as wide as that of the one the second
\* pass removed)
C15_Witness ==
    /\ pc = "returned" /\ fittype = "ellip"
    /\ Len(fit_pars) = MaxFits
    /\ Cardinality(Wide1) = 1 /\ Cardinality(Wide2) = 1
    /\ Len(ret.fits) = MaxFits - 2

====
